---- MODULE Spec2Model ----
(***************************************************************************)
(* raptor-core: the command dispatcher, the poll loop that publishes state  *)
(* snapshots, the dual-write coordinator for the                           *)
(* two wheel drives (child1 = inner wheel, child2 = outer wheel), the      *)
(* chain-speed and coil writers on the main drive, and the locally tracked *)
(* control state.  The program modelled is the current main program, the   *)
(* first program of src/unnamed/part_001 (lines 1-540); src/main.go is an  *)
(* earlier variant of it and is referred to where the two differ.          *)
(***************************************************************************)
EXTENDS Integers, Sequences, FiniteSets, TLC

VARIABLES
    directionControlEnabled, \* environment: ENABLE_DIRECTION_CONTROL == "true"
    driveDir,          \* environment: P0227 of each child drive (0 forward, 1 reverse)
    received,          \* number of MQTT messages delivered to the callback
    rejected,          \* number of them logged as "cmd: bad json" and dropped
    cmdCh,             \* the buffered command channel (FIFO)
    qid,               \* history: the arrival number of each queued command
    cid,               \* history: the arrival number of command c
    pc,                \* dispatcher position: "idle", or the field it is at
    c,                 \* the command the dispatcher is processing
    loc,               \* locals of the running dual write (cmd: history, the command it serves)
    g,                 \* per child goroutine: "none", "start", "connected", "done"
    err,               \* err1 / err2 of the running dual write
    conn,              \* per child: the write goroutine's connection is open
    currentDirection,  \* Control State: direction
    directionWarning,  \* Control State: mismatch warning
    currentSpeed,      \* Control State: wheel speed
    currentChainSpeed, \* Control State: chain speed
    writes,            \* history: the Modbus writes issued for command c, in order
    attempts,          \* history: per field and drive, the write attempts made for command c
    last,              \* history: the operation that has just returned
    ppc,               \* poll loop position
    ticks,             \* number of poll ticks started
    tg,                \* per drive, the telemetry goroutine: "none", "start", "connected", "done"
    telem,             \* chainTelem, innerTelem, outerTelem of the tick
    terr,              \* errChain, errInner, errOuter of the tick
    traw,              \* history: the bytes each drive returned in the tick
    coilRes,           \* history: what the two ReadCoils calls of the tick returned
    wheels,            \* local of the tick: wheels coil
    paddle,            \* local of the tick: paddle coil
    wheelDir,          \* local of the tick: loaded direction
    wheelSpd,          \* local of the tick: loaded wheel speed
    chainSpd,          \* local of the tick: loaded chain speed
    dirWarn,           \* local of the tick: loaded warning
    seq,               \* the snapshot counter
    snap,              \* the snapshot published by the tick
    published,         \* history: number of snapshots published
    prevFailed,        \* history: the drives whose telemetry read failed in the tick before
    window             \* history: the Control States that stood since the tick began to load

Poll == << ppc, ticks, tg, telem, terr, traw, coilRes, wheels, paddle,
           wheelDir, wheelSpd, chainSpd, dirWarn, seq, snap, published, prevFailed >>

vars == << directionControlEnabled, driveDir, received, rejected, cmdCh, qid, cid, pc, c, loc, g, err,
           conn, currentDirection, directionWarning, currentSpeed, currentChainSpeed,
           writes, attempts, last, Poll, window >>

-----------------------------------------------------------------------------
(* Bounds of the model *)

\* number of MQTT messages delivered in one run
MaxMsgs == 2
\* number of MQTT messages delivered in one run of SpecFields
MaxFieldMsgs == 1
\* number of poll ticks in one run of SpecPoll
MaxTicks == 2
\* number of MQTT messages delivered in one run of SpecQueue: one more than
\* the channel holds
MaxQueueMsgs == 17
\* number of MQTT messages delivered in one run of SpecLive
MaxLiveMsgs == 2
\* number of MQTT messages and of poll ticks in one run of SpecSnap
MaxSnapMsgs == 1
MaxSnapTicks == 1

-----------------------------------------------------------------------------
(* Program constants *)

cmdChCap == 16
wheelsCoilOneBased == 50066
chainCoilOneBased == 50067
\* the address of the earlier variant src/main.go, which is P0228's
directionRegisterOneBased == 227
directionRegister == 226
speedRegister == 121
minSpeed == 100
maxSpeed == 1500
minChainSpeed == 100
maxChainSpeed == 1200
defaultSpeed == 600
\* the zero value of an atomic.Uint64 that was never stored to
defaultChainSpeedZero == 0
defaultChainSpeed == 420
\* outerWheelRatio = 0.9167, as the fraction outerWheelRatioNum / outerWheelRatioDen
outerWheelRatioNum == 9167
outerWheelRatioDen == 10000
MaxUint16 == 65535
coilOn == 65280
coilOff == 0

warnBothFailed == "Direction change failed on both wheels"
warnInnerFailed == "WARNING: Inner wheel (.23) direction change failed - wheels may be mismatched!"
warnOuterFailed == "WARNING: Outer wheel (.24) direction change failed - wheels may be mismatched!"

wheelsStatusCoil == 16032
paddleStatusCoil == 64
telemetryAddress == 1
telemetryQuantity == 6
ampsDivisor == 200

Drives == {"chain", "inner", "outer"}
Children == {1, 2}
ChildDrive(i) == IF i = 1 THEN "child1" ELSE "child2"

-----------------------------------------------------------------------------
(* Inbound commands.  A pointer field of CmdPayload / Cmd is the empty      *)
(* sequence when nil and a one-element sequence when it points to a value.  *)

Ptr(S) == {<< >>} \cup {<<v>> : v \in S}
IsNil(p) == Len(p) = 0
Deref(p) == p[1]

DirectionInputs == {"fwd", "rev", "left"}
SpeedInputs == {0, 91, 600, 1300, 1501, MaxUint16}
ChainSpeedInputs == {0, 600, 1201, MaxUint16}

AllCmds ==
    [wheels : Ptr(BOOLEAN), chain : Ptr(BOOLEAN), direction : Ptr(DirectionInputs),
     speed : Ptr(SpeedInputs), chainSpeed : Ptr(ChainSpeedInputs)]

FieldNames == <<"wheels", "chain", "direction", "speed", "chainSpeed">>
Present(cmd) == {i \in 1..5 : ~IsNil(cmd[FieldNames[i]])}

\* the values carried by the commands that set several fields at once
IsStock(cmd) ==
    /\ cmd.wheels \in {<< >>, <<TRUE>>}
    /\ cmd.chain \in {<< >>, <<FALSE>>}
    /\ cmd.direction \in {<< >>, <<"rev">>}
    /\ cmd.speed \in {<< >>, <<1300>>}
    /\ cmd.chainSpeed \in {<< >>, <<1201>>}

\* The commands of Spec: the empty command, every value of every field alone,
\* and the command that sets all five fields.
Cmds == {cmd \in AllCmds : \/ Cardinality(Present(cmd)) <= 1
                           \/ IsStock(cmd) /\ Cardinality(Present(cmd)) = 5}

\* The commands of SpecFields: every subset of the five fields.
FieldCmds == {cmd \in AllCmds : IsStock(cmd)}

NoCmd == [wheels |-> << >>, chain |-> << >>, direction |-> << >>,
          speed |-> << >>, chainSpeed |-> << >>]

-----------------------------------------------------------------------------
(* Pure helpers of the write functions *)

\* faulty variant of CoilAddrZero: the 1-based address is sent as it is
CoilAddrOneBased(addrOneBased) == addrOneBased

\* writeCoil: the 0-based coil address and the encoded value
CoilAddrZero(addrOneBased) == addrOneBased - 1
CoilVal(on) == IF on THEN coilOn ELSE coilOff

\* faulty variant of NormalizeDirection: the requested string is kept as it is
\* (src/main.go stores it that way)
NormalizeDirectionRaw(direction) == direction

\* writeDirectionToBothWheels: register value and normalised direction
DirectionVal(direction) == IF direction = "rev" THEN 1 ELSE 0
NormalizeDirection(direction) == IF direction = "rev" THEN direction ELSE "fwd"

\* faulty variant of ClampSpeed: the lower clamp is missing
ClampSpeedUpperOnly(speed) == IF speed > maxSpeed THEN maxSpeed ELSE speed

\* writeSpeedToBothWheels: the two sequential clamps
ClampSpeed(speed) ==
    LET lo == IF speed < minSpeed THEN minSpeed ELSE speed
    IN  IF lo > maxSpeed THEN maxSpeed ELSE lo

\* faulty variant of OuterSpeed: the product is rounded to the nearest integer
OuterSpeedRounded(speed) ==
    ((2 * speed * outerWheelRatioNum + outerWheelRatioDen) \div (2 * outerWheelRatioDen))
        % (MaxUint16 + 1)

\* uint16(float64(speed) * outerWheelRatio): the conversion truncates
OuterSpeed(speed) == ((speed * outerWheelRatioNum) \div outerWheelRatioDen) % (MaxUint16 + 1)

\* writeChainSpeed: the two sequential clamps
ClampChainSpeed(speed) ==
    LET lo == IF speed < minChainSpeed THEN minChainSpeed ELSE speed
    IN  IF lo > maxChainSpeed THEN maxChainSpeed ELSE lo

NoLoc == [op |-> "none", cmd |-> 0, direction |-> "", val |-> 0, speed |-> 0, outerSpeed |-> 0]
NoLast == [op |-> "none"]
Idle2 == [i \in Children |-> "none"]
NoErr == [i \in Children |-> "nil"]
NoConn == [i \in Children |-> FALSE]

Write(drive, fn, addr, val) == [drive |-> drive, fn |-> fn, addr |-> addr, val |-> val]

\* the drives each field of a command is written to
AttemptKeys ==
    {<<"wheels", "main">>, <<"chain", "main">>, <<"chainSpeed", "main">>}
        \cup ({"direction", "speed"} \X {"child1", "child2"})
NoAttempts == [k \in AttemptKeys |-> 0]
\* attempts after one more attempt to write the field to the drive
Attempt(field, drive) == [attempts EXCEPT ![<<field, drive>>] = @ + 1]

-----------------------------------------------------------------------------
(* Telemetry and coil reads of the poll loop.  A response is a sequence of  *)
(* bytes; a call returns the bytes or an error.                             *)

\* six registers, big-endian: P0002 .. P0007
BlockA == <<4, 176, 4, 156, 0, 7, 1, 224, 0, 150, 0, 1>>
BlockB == <<2, 88, 0, 0, 0, 9, 0, 0, 255, 255, 0, 3>>
\* a response one byte short of the six registers
ShortBlock == SubSeq(BlockA, 1, 11)

ReadError == [err |-> TRUE, raw |-> << >>]
ReadOk(bytes) == [err |-> FALSE, raw |-> bytes]

\* what c.ReadHoldingRegisters(1, 6) can return
TelemReads == {ReadError, ReadOk(ShortBlock), ReadOk(BlockA), ReadOk(BlockB)}
\* what client.ReadCoils(addr, 1) can return
CoilReads == {ReadError, ReadOk(<< >>), ReadOk(<<1>>), ReadOk(<<2>>)}

\* The inputs of the poll loop in SpecPoll: every outcome of every read.
PollInputs == [ticks |-> MaxTicks, connect |-> BOOLEAN,
               reads |-> TelemReads, coils |-> CoilReads]
\* The inputs of the poll loop in SpecSnap: drives that answer, or a main
\* drive whose coil read fails.
SnapInputs == [ticks |-> MaxSnapTicks, connect |-> {TRUE},
               reads |-> {ReadOk(BlockA)}, coils |-> {ReadError, ReadOk(<<1>>)}]

\* binary.BigEndian.Uint16(raw[i:i+2]), i counted from 0
Uint16BE(raw, i) == raw[i + 1] * 256 + raw[i + 2]

\* VFDTelemetry{}; Amps is the fraction n / d (float32(ampsRaw) / 200.0 is
\* exact enough to tell any two values of ampsRaw apart)
ZeroTelem == [targetRPM |-> 0, actualRPM |-> 0, voltage |-> 0,
              amps |-> [n |-> 0, d |-> ampsDivisor], driveState |-> 0]

\* the parse of readVFDTelemetry: P0004 (raw[4:6]) is skipped
ParseTelemetry(raw) ==
    [targetRPM |-> Uint16BE(raw, 0), actualRPM |-> Uint16BE(raw, 2),
     voltage |-> Uint16BE(raw, 6),
     amps |-> [n |-> Uint16BE(raw, 8), d |-> ampsDivisor],
     driveState |-> Uint16BE(raw, 10)]

\* faulty variant of ReadVFDTelemetry: a short read is parsed as far as it goes
ReadVFDTelemetryPartial(res) ==
    IF res.err THEN [telem |-> ZeroTelem, err |-> "read"]
    ELSE IF Len(res.raw) < 2 * telemetryQuantity
    THEN [telem |-> [ZeroTelem EXCEPT !.targetRPM = Uint16BE(res.raw, 0)], err |-> "short"]
    ELSE [telem |-> ParseTelemetry(res.raw), err |-> "nil"]

\* readVFDTelemetry after the connect: the sample and the error it returns
\* for what ReadHoldingRegisters returned
ReadVFDTelemetry(res) ==
    IF res.err THEN [telem |-> ZeroTelem, err |-> "read"]
    ELSE IF Len(res.raw) < 2 * telemetryQuantity
    THEN [telem |-> ZeroTelem, err |-> "short"]
    ELSE [telem |-> ParseTelemetry(res.raw), err |-> "nil"]

\* err == nil && len(buf) >= 1, then (buf[0] & 0x01) != 0; false otherwise
CoilBit(res) == ~res.err /\ Len(res.raw) >= 1 /\ res.raw[1] % 2 = 1

\* faulty variant of NextSeq: the counter stays where it is once it has started
NextSeqStuck(s) == IF s = 0 THEN 1 ELSE s

\* atomic.AddUint64(&seq, 1)
NextSeq(s) == s + 1

NoTelem == [d \in Drives |-> ZeroTelem]
NoTerr == [d \in Drives |-> "nil"]
NoRaw == [d \in Drives |-> << >>]
NoTg == [d \in Drives |-> "none"]
NoCoilRes == [wheels |-> ReadOk(<< >>), paddle |-> ReadOk(<< >>)]
NoSnap == [seq |-> 0]

-----------------------------------------------------------------------------
(* Initial state: the state of main() when the dispatcher goroutine starts *)

Init ==
    /\ directionControlEnabled \in BOOLEAN
    /\ driveDir = [i \in Children |-> DirectionVal("fwd")]
    /\ received = 0
    /\ rejected = 0
    /\ cmdCh = << >>
    /\ qid = << >>
    /\ cid = 0
    /\ pc = "idle"
    /\ c = NoCmd
    /\ loc = NoLoc
    /\ g = Idle2
    /\ err = NoErr
    /\ conn = NoConn
    /\ currentDirection = "fwd"
    /\ directionWarning = ""
    /\ currentSpeed = defaultSpeed
    /\ currentChainSpeed = defaultChainSpeed
    /\ writes = << >>
    /\ attempts = NoAttempts
    /\ last = NoLast
    /\ ppc = "top"
    /\ ticks = 0
    /\ tg = NoTg
    /\ telem = NoTelem
    /\ terr = NoTerr
    /\ traw = NoRaw
    /\ coilRes = NoCoilRes
    /\ wheels = FALSE
    /\ paddle = FALSE
    /\ wheelDir = ""
    /\ wheelSpd = 0
    /\ chainSpd = 0
    /\ dirWarn = ""
    /\ seq = 0
    /\ snap = NoSnap
    /\ published = 0
    /\ prevFailed = {}
    /\ window = {}

Env == << directionControlEnabled, driveDir >>
ControlState == << currentDirection, directionWarning, currentSpeed, currentChainSpeed >>
DualWrite == << loc, g, err, conn >>
\* everything the subscribe callback and the dispatcher own
Core == << Env, received, rejected, cmdCh, qid, cid, pc, c, DualWrite,
           ControlState, writes, attempts, last >>

\* the Control State as the last completed operation left it (between the two
\* stores of a direction write that is the state before the write)
StableControl ==
    IF pc = "directionStore"
    THEN << last.oldDirection, last.oldWarning, currentSpeed, currentChainSpeed >>
    ELSE ControlState
\* the poll loop is between its first and its last load of the Control State
Loading == ppc \in {"loadDir", "loadSpd", "loadChain", "loadWarn"}
\* window after an operation has left the Control State as ctl
Observe(ctl) == IF Loading THEN window \cup {ctl} ELSE window

-----------------------------------------------------------------------------
(* The MQTT subscribe callback *)

\* faulty variant of SubscribeBadJson: the return after the log line is
\* missing, and the payload's zero value is sent on as a command
SubscribeBadJsonSent ==
    /\ received < MaxMsgs
    /\ Len(cmdCh) < cmdChCap
    /\ received' = received + 1
    /\ rejected' = rejected + 1
    /\ cmdCh' = Append(cmdCh, NoCmd)
    /\ qid' = Append(qid, received + 1)
    /\ UNCHANGED << Env, Poll, window, cid, pc, c, DualWrite, ControlState,
                    writes, attempts, last >>

\* a payload that json.Unmarshal rejects: logged and dropped
SubscribeBadJson ==
    /\ received < MaxMsgs
    /\ received' = received + 1
    /\ rejected' = rejected + 1
    /\ UNCHANGED << Env, Poll, window, cmdCh, qid, cid, pc, c, DualWrite, ControlState,
                    writes, attempts, last >>

\* faulty variant of Subscribe: a command that finds the channel full is
\* dropped (a send in a select with a default case)
SubscribeDropWhenFull(p) ==
    /\ received' = received + 1
    /\ IF Len(cmdCh) < cmdChCap
       THEN cmdCh' = Append(cmdCh, p) /\ qid' = Append(qid, received + 1)
       ELSE UNCHANGED << cmdCh, qid >>
    /\ UNCHANGED << Env, Poll, window, rejected, cid, pc, c, DualWrite, ControlState,
                    writes, attempts, last >>

\* a payload that parses: the command is sent on the channel (blocks while full)
Subscribe(p) ==
    /\ Len(cmdCh) < cmdChCap
    /\ received' = received + 1
    /\ cmdCh' = Append(cmdCh, p)
    /\ qid' = Append(qid, received + 1)
    /\ UNCHANGED << Env, Poll, window, rejected, cid, pc, c, DualWrite, ControlState,
                    writes, attempts, last >>

-----------------------------------------------------------------------------
(* The dispatcher goroutine: for c := range cmdCh { ... } *)

\* faulty variant of Dequeue: the newest command is taken first
DequeueNewest ==
    /\ pc = "idle"
    /\ cmdCh # << >>
    /\ c' = cmdCh[Len(cmdCh)]
    /\ cid' = qid[Len(qid)]
    /\ cmdCh' = SubSeq(cmdCh, 1, Len(cmdCh) - 1)
    /\ qid' = SubSeq(qid, 1, Len(qid) - 1)
    /\ pc' = "wheels"
    /\ writes' = << >>
    /\ attempts' = NoAttempts
    /\ last' = NoLast
    /\ UNCHANGED << Env, Poll, window, received, rejected, DualWrite, ControlState >>

\* the receive of the range loop: the oldest command of the channel
Dequeue ==
    /\ pc = "idle"
    /\ cmdCh # << >>
    /\ c' = Head(cmdCh)
    /\ cid' = Head(qid)
    /\ cmdCh' = Tail(cmdCh)
    /\ qid' = Tail(qid)
    /\ pc' = "wheels"
    /\ writes' = << >>
    /\ attempts' = NoAttempts
    /\ last' = NoLast
    /\ UNCHANGED << Env, Poll, window, received, rejected, DualWrite, ControlState >>

\* faulty variant of WheelsField: the nil check is missing (a field that is not a
\* pointer reads as false when the message leaves it out)
WheelsFieldUnconditional ==
    /\ pc = "wheels"
    /\ pc' = "wheelsCall"
    /\ writes' = Append(writes, Write("main", "WriteSingleCoil",
                        CoilAddrZero(wheelsCoilOneBased),
                        CoilVal(IF IsNil(c.wheels) THEN FALSE ELSE Deref(c.wheels))))
    /\ attempts' = Attempt("wheels", "main")
    /\ last' = NoLast
    /\ UNCHANGED << Env, Poll, window, received, rejected, cmdCh, qid, cid, c, DualWrite, ControlState >>

\* if c.wheels != nil { writeCoil(wheelsCoilOneBased, *c.wheels) }, up to the
\* request of client.WriteSingleCoil on the main drive's connection
WheelsField ==
    /\ pc = "wheels"
    /\ last' = NoLast
    /\ IF IsNil(c.wheels)
       THEN pc' = "chain" /\ UNCHANGED << writes, attempts >>
       ELSE /\ pc' = "wheelsCall"
            /\ writes' = Append(writes, Write("main", "WriteSingleCoil",
                                CoilAddrZero(wheelsCoilOneBased), CoilVal(Deref(c.wheels))))
            /\ attempts' = Attempt("wheels", "main")
    /\ UNCHANGED << Env, Poll, window, received, rejected, cmdCh, qid, cid, c, DualWrite, ControlState >>

\* faulty variant of WheelsReturn: a failed coil write ends the command
WheelsReturnAbort(ok) ==
    /\ pc = "wheelsCall"
    /\ pc' = IF ok THEN "chain" ELSE "idle"
    /\ last' = [op |-> "wheels", ok |-> ok]
    /\ UNCHANGED << Env, Poll, window, received, rejected, cmdCh, qid, cid, c, DualWrite, ControlState,
                    writes, attempts >>

\* client.WriteSingleCoil returns; the result is only logged
WheelsReturn(ok) ==
    /\ pc = "wheelsCall"
    /\ pc' = "chain"
    /\ last' = [op |-> "wheels", ok |-> ok]
    /\ UNCHANGED << Env, Poll, window, received, rejected, cmdCh, qid, cid, c, DualWrite, ControlState, writes, attempts >>

\* if c.chain != nil { writeCoil(chainCoilOneBased, *c.chain) }, up to the request
ChainField ==
    /\ pc = "chain"
    /\ last' = NoLast
    /\ IF IsNil(c.chain)
       THEN pc' = "direction" /\ UNCHANGED << writes, attempts >>
       ELSE /\ pc' = "chainCall"
            /\ writes' = Append(writes, Write("main", "WriteSingleCoil",
                                CoilAddrZero(chainCoilOneBased), CoilVal(Deref(c.chain))))
            /\ attempts' = Attempt("chain", "main")
    /\ UNCHANGED << Env, Poll, window, received, rejected, cmdCh, qid, cid, c, DualWrite, ControlState >>

\* client.WriteSingleCoil returns; the result is only logged
ChainReturn(ok) ==
    /\ pc = "chainCall"
    /\ pc' = "direction"
    /\ last' = [op |-> "chain", ok |-> ok]
    /\ UNCHANGED << Env, Poll, window, received, rejected, cmdCh, qid, cid, c, DualWrite, ControlState, writes, attempts >>

\* faulty variants of DirectionOutcome: the two one-sided warnings swapped, the
\* direction stored even when both writes failed, the warning not cleared
DirectionOutcomeSwapped(e1, e2, direction, oldDirection, oldWarning) ==
    IF e1 # "nil" /\ e2 # "nil"
    THEN [direction |-> oldDirection, warning |-> warnBothFailed]
    ELSE IF e1 # "nil"
    THEN [direction |-> direction, warning |-> warnOuterFailed]
    ELSE IF e2 # "nil"
    THEN [direction |-> direction, warning |-> warnInnerFailed]
    ELSE [direction |-> direction, warning |-> ""]

DirectionOutcomeAlwaysStore(e1, e2, direction, oldDirection, oldWarning) ==
    IF e1 # "nil" /\ e2 # "nil"
    THEN [direction |-> direction, warning |-> warnBothFailed]
    ELSE IF e1 # "nil"
    THEN [direction |-> direction, warning |-> warnInnerFailed]
    ELSE IF e2 # "nil"
    THEN [direction |-> direction, warning |-> warnOuterFailed]
    ELSE [direction |-> direction, warning |-> ""]

DirectionOutcomeKeepWarning(e1, e2, direction, oldDirection, oldWarning) ==
    IF e1 # "nil" /\ e2 # "nil"
    THEN [direction |-> oldDirection, warning |-> warnBothFailed]
    ELSE IF e1 # "nil"
    THEN [direction |-> direction, warning |-> warnInnerFailed]
    ELSE IF e2 # "nil"
    THEN [direction |-> direction, warning |-> warnOuterFailed]
    ELSE [direction |-> direction, warning |-> oldWarning]

\* faulty variant of DirectionOutcome: a write that failed on one drive only
\* records the direction and leaves the warning empty
DirectionOutcomeSilentPartial(e1, e2, direction, oldDirection, oldWarning) ==
    IF e1 # "nil" /\ e2 # "nil"
    THEN [direction |-> oldDirection, warning |-> warnBothFailed]
    ELSE [direction |-> direction, warning |-> ""]

\* the classification at the end of writeDirectionToBothWheels: the new
\* Control State direction and warning, from err1, err2 and the old values
DirectionOutcome(e1, e2, direction, oldDirection, oldWarning) ==
    IF e1 # "nil" /\ e2 # "nil"
    THEN [direction |-> oldDirection, warning |-> warnBothFailed]
    ELSE IF e1 # "nil"
    THEN [direction |-> direction, warning |-> warnInnerFailed]
    ELSE IF e2 # "nil"
    THEN [direction |-> direction, warning |-> warnOuterFailed]
    ELSE [direction |-> direction, warning |-> ""]

\* faulty variant of DirectionField: the direction is recorded and no write is
\* issued (the disabled branch of src/main.go)
DirectionFieldStoreOnly ==
    /\ pc = "direction"
    /\ last' = NoLast
    /\ pc' = "speed"
    /\ currentDirection' = IF IsNil(c.direction) THEN currentDirection
                           ELSE NormalizeDirection(Deref(c.direction))
    /\ UNCHANGED << Env, Poll, window, received, rejected, cmdCh, qid, cid, c, DualWrite, directionWarning,
                    currentSpeed, currentChainSpeed, writes, attempts >>

\* if c.direction != nil { writeDirectionToBothWheels(*c.direction) }, up to
\* the start of the two goroutines, each with a handler of its own
DirectionField ==
    /\ pc = "direction"
    /\ last' = NoLast
    /\ IF IsNil(c.direction)
       THEN pc' = "speed" /\ UNCHANGED DualWrite
       ELSE /\ pc' = "directionWait"
            /\ loc' = [NoLoc EXCEPT !.op = "direction", !.cmd = cid,
                                    !.direction = NormalizeDirection(Deref(c.direction)),
                                    !.val = DirectionVal(Deref(c.direction))]
            /\ g' = [i \in Children |-> "start"]
            /\ err' = NoErr
            /\ conn' = NoConn
    /\ UNCHANGED << Env, Poll, window, received, rejected, cmdCh, qid, cid, c, ControlState, writes, attempts >>

\* faulty variant of ChildConnect: a connect that fails is tried once more
ChildConnectRetry(i, ok) ==
    /\ g[i] = "start"
    /\ attempts' = Attempt(loc.op, ChildDrive(i))
    /\ IF ok
       THEN /\ g' = [g EXCEPT ![i] = "connected"]
            /\ conn' = [conn EXCEPT ![i] = TRUE]
            /\ UNCHANGED err
       ELSE IF attempts[<<loc.op, ChildDrive(i)>>] = 0
       THEN UNCHANGED << g, err, conn >>
       ELSE /\ g' = [g EXCEPT ![i] = "done"]
            /\ err' = [err EXCEPT ![i] = "connect"]
            /\ UNCHANGED conn
    /\ UNCHANGED << Env, Poll, window, received, rejected, cmdCh, qid, cid, pc, c, loc, ControlState,
                    writes, last >>

\* faulty variant of ChildConnect: wg.Done() is not deferred, and the return
\* after a failed connect leaves the goroutine without calling it
ChildConnectNoDone(i, ok) ==
    /\ g[i] = "start"
    /\ attempts' = Attempt(loc.op, ChildDrive(i))
    /\ IF ok
       THEN /\ g' = [g EXCEPT ![i] = "connected"]
            /\ conn' = [conn EXCEPT ![i] = TRUE]
            /\ UNCHANGED err
       ELSE /\ g' = [g EXCEPT ![i] = "returned"]
            /\ err' = [err EXCEPT ![i] = "connect"]
            /\ UNCHANGED conn
    /\ UNCHANGED << Env, Poll, window, received, rejected, cmdCh, qid, cid, pc, c, loc, ControlState,
                    writes, last >>

\* a write goroutine: h.Connect() on its fresh handler, the start of its one
\* attempt to write the drive
ChildConnect(i, ok) ==
    /\ g[i] = "start"
    /\ attempts' = Attempt(loc.op, ChildDrive(i))
    /\ IF ok
       THEN /\ g' = [g EXCEPT ![i] = "connected"]
            /\ conn' = [conn EXCEPT ![i] = TRUE]
            /\ UNCHANGED err
       ELSE /\ g' = [g EXCEPT ![i] = "done"]
            /\ err' = [err EXCEPT ![i] = "connect"]
            /\ UNCHANGED conn
    /\ UNCHANGED << Env, Poll, window, received, rejected, cmdCh, qid, cid, pc, c, loc, ControlState,
                    writes, last >>

\* the register and the value a write goroutine sends
ChildRegister == IF loc.op = "direction" THEN directionRegister ELSE speedRegister
ChildValue(i) ==
    IF loc.op = "direction" THEN loc.val
    ELSE IF i = 1 THEN loc.speed ELSE loc.outerSpeed

\* faulty variant of ChildWrite: the connection is closed only after a write
\* that succeeded
ChildWriteLeak(i, ok) ==
    /\ g[i] = "connected"
    /\ writes' = Append(writes, Write(ChildDrive(i), "WriteSingleRegister",
                                      ChildRegister, ChildValue(i)))
    /\ g' = [g EXCEPT ![i] = "done"]
    /\ err' = IF ok THEN err ELSE [err EXCEPT ![i] = "write"]
    /\ conn' = [conn EXCEPT ![i] = ~ok]
    /\ \E applied \in (IF ok THEN {TRUE} ELSE BOOLEAN) :
          driveDir' = IF applied /\ loc.op = "direction"
                      THEN [driveDir EXCEPT ![i] = loc.val] ELSE driveDir
    /\ UNCHANGED << directionControlEnabled, Poll, window, received, rejected, cmdCh, qid, cid, pc, c,
                    loc, ControlState, attempts, last >>

\* a write goroutine: c.WriteSingleRegister, then the deferred h.Close() and
\* wg.Done().  A write that returns an error may or may not have reached the
\* drive's register (the error can be the response that was lost).
ChildWrite(i, ok) ==
    /\ g[i] = "connected"
    /\ writes' = Append(writes, Write(ChildDrive(i), "WriteSingleRegister",
                                      ChildRegister, ChildValue(i)))
    /\ g' = [g EXCEPT ![i] = "done"]
    /\ err' = IF ok THEN err ELSE [err EXCEPT ![i] = "write"]
    /\ conn' = [conn EXCEPT ![i] = FALSE]
    /\ \E applied \in (IF ok THEN {TRUE} ELSE BOOLEAN) :
          driveDir' = IF applied /\ loc.op = "direction"
                      THEN [driveDir EXCEPT ![i] = loc.val] ELSE driveDir
    /\ UNCHANGED << directionControlEnabled, Poll, window, received, rejected, cmdCh, qid, cid, pc, c,
                    loc, ControlState, attempts, last >>

\* faulty variant of DirectionJoin: wg.Wait() is missing, the goroutines are
\* left running
DirectionJoinNoWait ==
    /\ pc = "directionWait"
    /\ pc' = "speed"
    /\ last' = NoLast
    /\ UNCHANGED << Env, Poll, window, received, rejected, cmdCh, qid, cid, c, DualWrite, ControlState, writes, attempts >>

\* writeDirectionToBothWheels from wg.Wait() to its first atomic store: the
\* warning when a write failed, the direction when both succeeded.  When both
\* failed that store is the only one and the function returns.
DirectionJoin ==
    /\ pc = "directionWait"
    /\ \A i \in Children : g[i] = "done"
    /\ LET out == DirectionOutcome(err[1], err[2], loc.direction,
                                   currentDirection, directionWarning)
           rec == [requested |-> Deref(c.direction), e1 |-> err[1], e2 |-> err[2],
                   oldDirection |-> currentDirection, oldWarning |-> directionWarning]
       IN  IF err[1] # "nil" /\ err[2] # "nil"
           THEN /\ directionWarning' = out.warning
                /\ currentDirection' = out.direction
                /\ last' = [op |-> "direction"] @@ rec
                /\ pc' = "speed"
                /\ loc' = NoLoc /\ g' = Idle2 /\ err' = NoErr
                /\ window' = Observe(<< out.direction, out.warning,
                                        currentSpeed, currentChainSpeed >>)
           ELSE /\ IF err[1] # "nil" \/ err[2] # "nil"
                   THEN directionWarning' = out.warning /\ UNCHANGED currentDirection
                   ELSE currentDirection' = out.direction /\ UNCHANGED directionWarning
                /\ last' = [op |-> "directionStoring"] @@ rec
                /\ pc' = "directionStore"
                /\ UNCHANGED << loc, g, err, window >>
    /\ UNCHANGED << Env, Poll, received, rejected, cmdCh, qid, cid, c, conn, currentSpeed,
                    currentChainSpeed, writes, attempts >>

\* the second atomic store of writeDirectionToBothWheels and its return: the
\* direction after the warning, or the cleared warning after the direction
DirectionStore ==
    /\ pc = "directionStore"
    /\ LET out == DirectionOutcome(err[1], err[2], loc.direction,
                                   currentDirection, directionWarning)
       IN  /\ currentDirection' = out.direction
           /\ directionWarning' = out.warning
           /\ window' = Observe(<< out.direction, out.warning,
                                   currentSpeed, currentChainSpeed >>)
    /\ last' = [last EXCEPT !.op = "direction"]
    /\ pc' = "speed"
    /\ loc' = NoLoc /\ g' = Idle2 /\ err' = NoErr
    /\ UNCHANGED << Env, Poll, received, rejected, cmdCh, qid, cid, c, conn, currentSpeed,
                    currentChainSpeed, writes, attempts >>

\* if c.speed != nil { writeSpeedToBothWheels(*c.speed) }, up to the start of
\* the two goroutines
SpeedField ==
    /\ pc = "speed"
    /\ last' = NoLast
    /\ IF IsNil(c.speed)
       THEN pc' = "chainSpeed" /\ UNCHANGED DualWrite
       ELSE /\ pc' = "speedWait"
            /\ loc' = [NoLoc EXCEPT !.op = "speed", !.cmd = cid,
                                    !.speed = ClampSpeed(Deref(c.speed)),
                                    !.outerSpeed = OuterSpeed(ClampSpeed(Deref(c.speed)))]
            /\ g' = [i \in Children |-> "start"]
            /\ err' = NoErr
            /\ conn' = NoConn
    /\ UNCHANGED << Env, Poll, window, received, rejected, cmdCh, qid, cid, c, ControlState, writes, attempts >>

\* faulty variant of SpeedOutcome: the speed is recorded only when both writes succeed
SpeedOutcomeOnSuccess(e1, e2, speed, oldSpeed) ==
    IF e1 = "nil" /\ e2 = "nil" THEN speed ELSE oldSpeed

\* the value writeSpeedToBothWheels stores after wg.Wait(): the clamped speed,
\* whatever the two goroutines met
SpeedOutcome(e1, e2, speed, oldSpeed) == speed

\* faulty variant of SpeedJoin: a speed write on which both drives succeeded
\* clears the mismatch warning
SpeedJoinClearsWarning ==
    /\ pc = "speedWait"
    /\ \A i \in Children : g[i] = "done"
    /\ currentSpeed' = SpeedOutcome(err[1], err[2], loc.speed, currentSpeed)
    /\ directionWarning' = IF err[1] = "nil" /\ err[2] = "nil" THEN "" ELSE directionWarning
    /\ last' = [op |-> "speed", requested |-> Deref(c.speed),
                e1 |-> err[1], e2 |-> err[2], oldSpeed |-> currentSpeed]
    /\ pc' = "chainSpeed"
    /\ loc' = NoLoc /\ g' = Idle2 /\ err' = NoErr
    /\ UNCHANGED << Env, Poll, window, received, rejected, cmdCh, qid, cid, c, conn, currentDirection,
                    currentChainSpeed, writes, attempts >>

\* faulty variant of SpeedJoin: wg.Wait() is missing and the function returns
\* with its goroutines still running
SpeedJoinNoWait ==
    /\ pc = "speedWait"
    /\ pc' = "chainSpeed"
    /\ last' = NoLast
    /\ UNCHANGED << Env, Poll, window, received, rejected, cmdCh, qid, cid, c, DualWrite, ControlState,
                    writes, attempts >>

\* faulty variant of SpeedJoin: the speed is recorded as soon as one of the two
\* goroutines has finished
SpeedJoinEarly ==
    /\ pc = "speedWait"
    /\ \E i \in Children : g[i] = "done"
    /\ currentSpeed' = SpeedOutcome(err[1], err[2], loc.speed, currentSpeed)
    /\ last' = [op |-> "speed", requested |-> Deref(c.speed),
                e1 |-> err[1], e2 |-> err[2], oldSpeed |-> currentSpeed]
    /\ pc' = "chainSpeed"
    /\ loc' = NoLoc /\ g' = Idle2 /\ err' = NoErr
    /\ window' = Observe(<< currentDirection, directionWarning,
                            SpeedOutcome(err[1], err[2], loc.speed, currentSpeed),
                            currentChainSpeed >>)
    /\ UNCHANGED << Env, Poll, received, rejected, cmdCh, qid, cid, c, conn, currentDirection,
                    directionWarning, currentChainSpeed, writes, attempts >>

\* writeSpeedToBothWheels from wg.Wait() to its return (the goroutines only log
\* their errors; err keeps them here for the history variable last)
SpeedJoin ==
    /\ pc = "speedWait"
    /\ \A i \in Children : g[i] = "done"
    /\ currentSpeed' = SpeedOutcome(err[1], err[2], loc.speed, currentSpeed)
    /\ last' = [op |-> "speed", requested |-> Deref(c.speed),
                e1 |-> err[1], e2 |-> err[2], oldSpeed |-> currentSpeed]
    /\ pc' = "chainSpeed"
    /\ loc' = NoLoc /\ g' = Idle2 /\ err' = NoErr
    /\ window' = Observe(<< currentDirection, directionWarning,
                            SpeedOutcome(err[1], err[2], loc.speed, currentSpeed),
                            currentChainSpeed >>)
    /\ UNCHANGED << Env, Poll, received, rejected, cmdCh, qid, cid, c, conn, currentDirection,
                    directionWarning, currentChainSpeed, writes, attempts >>

\* if c.chainSpeed != nil { writeChainSpeed(*c.chainSpeed) }, up to the request
\* of client.WriteSingleRegister on the main drive's connection; with no chain
\* speed the loop waits on the channel again
ChainSpeedField ==
    /\ pc = "chainSpeed"
    /\ last' = NoLast
    /\ IF IsNil(c.chainSpeed)
       THEN pc' = "idle" /\ UNCHANGED << writes, attempts >>
       ELSE /\ pc' = "chainSpeedCall"
            /\ writes' = Append(writes, Write("main", "WriteSingleRegister", speedRegister,
                                              ClampChainSpeed(Deref(c.chainSpeed))))
            /\ attempts' = Attempt("chainSpeed", "main")
    /\ UNCHANGED << Env, Poll, window, received, rejected, cmdCh, qid, cid, c, DualWrite, ControlState >>

\* faulty variant of ChainSpeedReturn: the clamped chain speed is recorded
\* whatever the write returned, as writeSpeedToBothWheels does
ChainSpeedReturnAlways(ok) ==
    /\ pc = "chainSpeedCall"
    /\ pc' = "idle"
    /\ currentChainSpeed' = ClampChainSpeed(Deref(c.chainSpeed))
    /\ last' = [op |-> "chainSpeed", requested |-> Deref(c.chainSpeed), ok |-> ok,
                oldChainSpeed |-> currentChainSpeed]
    /\ UNCHANGED << Env, Poll, window, received, rejected, cmdCh, qid, cid, c, DualWrite,
                    currentDirection, directionWarning, currentSpeed, writes, attempts >>

\* faulty variant of ChainSpeedReturn: the clamped chain speed is also stored
\* as the wheel speed
ChainSpeedReturnBothSpeeds(ok) ==
    /\ pc = "chainSpeedCall"
    /\ pc' = "idle"
    /\ currentChainSpeed' = IF ok THEN ClampChainSpeed(Deref(c.chainSpeed))
                            ELSE currentChainSpeed
    /\ currentSpeed' = IF ok THEN ClampChainSpeed(Deref(c.chainSpeed)) ELSE currentSpeed
    /\ last' = [op |-> "chainSpeed", requested |-> Deref(c.chainSpeed), ok |-> ok,
                oldChainSpeed |-> currentChainSpeed]
    /\ UNCHANGED << Env, Poll, window, received, rejected, cmdCh, qid, cid, c, DualWrite,
                    currentDirection, directionWarning, writes, attempts >>

\* client.WriteSingleRegister returns: on an error writeChainSpeed returns
\* without storing, else it stores the clamped chain speed
ChainSpeedReturn(ok) ==
    /\ pc = "chainSpeedCall"
    /\ pc' = "idle"
    /\ currentChainSpeed' = IF ok THEN ClampChainSpeed(Deref(c.chainSpeed))
                            ELSE currentChainSpeed
    /\ last' = [op |-> "chainSpeed", requested |-> Deref(c.chainSpeed), ok |-> ok,
                oldChainSpeed |-> currentChainSpeed]
    /\ window' = Observe(<< currentDirection, directionWarning, currentSpeed,
                            IF ok THEN ClampChainSpeed(Deref(c.chainSpeed))
                            ELSE currentChainSpeed >>)
    /\ UNCHANGED << Env, Poll, received, rejected, cmdCh, qid, cid, c, DualWrite,
                    currentDirection, directionWarning, currentSpeed, writes, attempts >>

\* one step of the dispatcher goroutine or of one of its write goroutines
Dispatcher ==
    \/ Dequeue
    \/ WheelsField
    \/ \E ok \in BOOLEAN : WheelsReturn(ok)
    \/ ChainField
    \/ \E ok \in BOOLEAN : ChainReturn(ok)
    \/ DirectionField
    \/ \E i \in Children, ok \in BOOLEAN : ChildConnect(i, ok)
    \/ \E i \in Children, ok \in BOOLEAN : ChildWrite(i, ok)
    \/ DirectionJoin
    \/ DirectionStore
    \/ SpeedField
    \/ SpeedJoin
    \/ ChainSpeedField
    \/ \E ok \in BOOLEAN : ChainSpeedReturn(ok)

-----------------------------------------------------------------------------
(* The poll loop: for { ... time.Sleep(pollInterval) }.  The argument in    *)
(* holds the number of ticks of the run and what the drives can answer.      *)

\* the top of the loop body: fresh locals and the three telemetry goroutines
PollStart(in) ==
    /\ ppc = "top"
    /\ ticks < in.ticks
    /\ ticks' = ticks + 1
    /\ ppc' = "telemetry"
    /\ tg' = [d \in Drives |-> "start"]
    /\ telem' = NoTelem /\ terr' = NoTerr /\ traw' = NoRaw
    /\ coilRes' = NoCoilRes /\ wheels' = FALSE /\ paddle' = FALSE
    /\ wheelDir' = "" /\ wheelSpd' = 0 /\ chainSpd' = 0 /\ dirWarn' = ""
    /\ snap' = NoSnap
    /\ window' = {}
    /\ prevFailed' = {d \in Drives : terr[d] # "nil"}
    /\ UNCHANGED << Core, seq, published >>

\* readVFDTelemetry: h.Connect() on a fresh handler
TelemConnect(d, ok) ==
    /\ tg[d] = "start"
    /\ IF ok
       THEN tg' = [tg EXCEPT ![d] = "connected"] /\ UNCHANGED << telem, terr >>
       ELSE /\ tg' = [tg EXCEPT ![d] = "done"]
            /\ telem' = [telem EXCEPT ![d] = ZeroTelem]
            /\ terr' = [terr EXCEPT ![d] = "connect"]
    /\ UNCHANGED << Core, window, ppc, ticks, traw, coilRes, wheels, paddle,
                    wheelDir, wheelSpd, chainSpd, dirWarn, seq, snap, published,
                    prevFailed >>

\* readVFDTelemetry: c.ReadHoldingRegisters(1, 6) returns res; the sample and
\* the error are assigned to the tick's locals
TelemRead(d, res) ==
    /\ tg[d] = "connected"
    /\ tg' = [tg EXCEPT ![d] = "done"]
    /\ traw' = [traw EXCEPT ![d] = res.raw]
    /\ telem' = [telem EXCEPT ![d] = ReadVFDTelemetry(res).telem]
    /\ terr' = [terr EXCEPT ![d] = ReadVFDTelemetry(res).err]
    /\ UNCHANGED << Core, window, ppc, ticks, coilRes, wheels, paddle,
                    wheelDir, wheelSpd, chainSpd, dirWarn, seq, snap, published,
                    prevFailed >>

\* faulty variant of TelemJoin: a failed read of the main drive ends the tick
\* (the continue of src/main.go)
TelemJoinSkip ==
    /\ ppc = "telemetry"
    /\ \A d \in Drives : tg[d] = "done"
    /\ tg' = NoTg
    /\ ppc' = IF terr["chain"] # "nil" THEN "top" ELSE "wheelsCoilCall"
    /\ UNCHANGED << Core, window, ticks, telem, terr, traw, coilRes, wheels, paddle,
                    wheelDir, wheelSpd, chainSpd, dirWarn, seq, snap, published,
                    prevFailed >>

\* wgRead.Wait() returns, the errors are logged, and client.ReadCoils(16032, 1)
\* is called on the main drive's connection
TelemJoin ==
    /\ ppc = "telemetry"
    /\ \A d \in Drives : tg[d] = "done"
    /\ tg' = NoTg
    /\ ppc' = "wheelsCoilCall"
    /\ UNCHANGED << Core, window, ticks, telem, terr, traw, coilRes, wheels, paddle,
                    wheelDir, wheelSpd, chainSpd, dirWarn, seq, snap, published,
                    prevFailed >>

\* ReadCoils(16032, 1) returns res; then client.ReadCoils(64, 1) is called
WheelsCoilReturn(res) ==
    /\ ppc = "wheelsCoilCall"
    /\ wheels' = CoilBit(res)
    /\ coilRes' = [coilRes EXCEPT !.wheels = res]
    /\ ppc' = "paddleCoilCall"
    /\ UNCHANGED << Core, window, ticks, tg, telem, terr, traw, paddle,
                    wheelDir, wheelSpd, chainSpd, dirWarn, seq, snap, published,
                    prevFailed >>

\* ReadCoils(64, 1) returns res
PaddleCoilReturn(res) ==
    /\ ppc = "paddleCoilCall"
    /\ paddle' = CoilBit(res)
    /\ coilRes' = [coilRes EXCEPT !.paddle = res]
    /\ ppc' = "loadDir"
    /\ window' = {StableControl}
    /\ UNCHANGED << Core, ticks, tg, telem, terr, traw, wheels,
                    wheelDir, wheelSpd, chainSpd, dirWarn, seq, snap, published,
                    prevFailed >>

\* wheelDir := currentDirection.Load().(string)
LoadDirection ==
    /\ ppc = "loadDir"
    /\ wheelDir' = currentDirection
    /\ ppc' = "loadSpd"
    /\ UNCHANGED << Core, window, ticks, tg, telem, terr, traw, coilRes, wheels, paddle,
                    wheelSpd, chainSpd, dirWarn, seq, snap, published, prevFailed >>

\* faulty variant of LoadSpeed: the snapshot reports the default speed
LoadSpeedDefault ==
    /\ ppc = "loadSpd"
    /\ wheelSpd' = defaultSpeed
    /\ ppc' = "loadChain"
    /\ UNCHANGED << Core, window, ticks, tg, telem, terr, traw, coilRes, wheels, paddle,
                    wheelDir, chainSpd, dirWarn, seq, snap, published, prevFailed >>

\* wheelSpd := uint16(currentSpeed.Load())
LoadSpeed ==
    /\ ppc = "loadSpd"
    /\ wheelSpd' = currentSpeed % (MaxUint16 + 1)
    /\ ppc' = "loadChain"
    /\ UNCHANGED << Core, window, ticks, tg, telem, terr, traw, coilRes, wheels, paddle,
                    wheelDir, chainSpd, dirWarn, seq, snap, published, prevFailed >>

\* chainSpd := uint16(currentChainSpeed.Load())
LoadChainSpeed ==
    /\ ppc = "loadChain"
    /\ chainSpd' = currentChainSpeed % (MaxUint16 + 1)
    /\ ppc' = "loadWarn"
    /\ UNCHANGED << Core, window, ticks, tg, telem, terr, traw, coilRes, wheels, paddle,
                    wheelDir, wheelSpd, dirWarn, seq, snap, published, prevFailed >>

\* dirWarn := directionWarning.Load().(string)
LoadWarning ==
    /\ ppc = "loadWarn"
    /\ dirWarn' = directionWarning
    /\ ppc' = "publish"
    /\ UNCHANGED << Core, window, ticks, tg, telem, terr, traw, coilRes, wheels, paddle,
                    wheelDir, wheelSpd, chainSpd, seq, snap, published, prevFailed >>

\* the Snapshot literal (TS left out), mc.Publish, and the sleep that ends the tick
Publish ==
    /\ ppc = "publish"
    /\ seq' = NextSeq(seq)
    /\ snap' = [seq |-> NextSeq(seq),
                chain |-> telem["chain"], innerWheel |-> telem["inner"],
                outerWheel |-> telem["outer"],
                voltage |-> telem["chain"].voltage,
                targetRPM |-> telem["chain"].targetRPM,
                actualRPM |-> telem["chain"].actualRPM,
                wheelsRunning |-> wheels, paddleRunning |-> paddle,
                wheelDirection |-> wheelDir, wheelSpeed |-> wheelSpd,
                chainSpeed |-> chainSpd, directionWarning |-> dirWarn]
    /\ published' = published + 1
    /\ ppc' = "top"
    /\ UNCHANGED << Core, window, ticks, tg, telem, terr, traw, coilRes, wheels, paddle,
                    wheelDir, wheelSpd, chainSpd, dirWarn, prevFailed >>

\* one step of the poll loop or of one of its telemetry goroutines
PollLoop(in) ==
    \/ PollStart(in)
    \/ \E d \in Drives, ok \in in.connect : TelemConnect(d, ok)
    \/ \E d \in Drives, res \in in.reads : TelemRead(d, res)
    \/ TelemJoin
    \/ \E res \in in.coils : WheelsCoilReturn(res)
    \/ \E res \in in.coils : PaddleCoilReturn(res)
    \/ LoadDirection
    \/ LoadSpeed
    \/ LoadChainSpeed
    \/ LoadWarning
    \/ Publish

SubscribeCmd(p) == received < MaxMsgs /\ Subscribe(p)

Next ==
    \/ SubscribeBadJson
    \/ \E p \in Cmds : SubscribeCmd(p)
    \/ Dispatcher

Spec == Init /\ [][Next]_vars

\* The same program, fed commands that carry every subset of the five fields.
SubscribeFields(p) == received < MaxFieldMsgs /\ Subscribe(p)

NextFields ==
    \/ \E p \in FieldCmds : SubscribeFields(p)
    \/ Dispatcher

SpecFields == Init /\ [][NextFields]_vars

\* The poll loop on its own, with drives that fail in every way.
NextPoll == PollLoop(PollInputs)

SpecPoll == Init /\ [][NextPoll]_vars

\* Messages that arrive faster than the dispatcher works: the channel fills.
\* Every message is the command that sets all five fields.
QueueCmds == {cmd \in FieldCmds : Cardinality(Present(cmd)) = 5}

SubscribeQueue(p) == received < MaxQueueMsgs /\ Subscribe(p)

NextQueue ==
    \/ \E p \in QueueCmds : SubscribeQueue(p)
    \/ Dispatcher

SpecQueue == Init /\ [][NextQueue]_vars

\* The dispatcher under fair scheduling: a goroutine that can run is run, and
\* a call that can return does return (every handler has a timeout).  Weak
\* fairness of the dispatcher's steps as a whole says no more than that.
SubscribeLive(p) == received < MaxLiveMsgs /\ Subscribe(p)

NextLive ==
    \/ \E p \in QueueCmds : SubscribeLive(p)
    \/ Dispatcher

SpecLive == Init /\ [][NextLive]_vars /\ WF_vars(Dispatcher)

\* The poll loop next to the dispatcher: commands that write the main drive or
\* change the Control State arrive while ticks run.
SnapCmds == {cmd \in AllCmds :
                /\ Cardinality(Present(cmd)) = 1
                /\ cmd.wheels \in {<< >>, <<TRUE>>}
                /\ cmd.chain \in {<< >>, <<FALSE>>}
                /\ cmd.direction \in {<< >>, <<"rev">>}
                /\ cmd.speed \in {<< >>, <<1501>>}
                /\ cmd.chainSpeed \in {<< >>, <<1201>>}}

SubscribeSnap(p) == received < MaxSnapMsgs /\ Subscribe(p)

NextSnap ==
    \/ \E p \in SnapCmds : SubscribeSnap(p)
    \/ Dispatcher
    \/ PollLoop(SnapInputs)

SpecSnap == Init /\ [][NextSnap]_vars

-----------------------------------------------------------------------------
(* Properties *)

Failed(e) == e # "nil"
ChildWrites == {k \in 1..Len(writes) : writes[k].drive \in {"child1", "child2"}}
InnerSpeedWrites ==
    {k \in 1..Len(writes) : writes[k].drive = "child1" /\ writes[k].addr = 121}
OuterSpeedWrites ==
    {k \in 1..Len(writes) : writes[k].drive = "child2" /\ writes[k].addr = 121}
\* the direction a request stands for: anything but "rev" is a request for forward
Requested(d) == IF d = "rev" THEN "rev" ELSE "fwd"
\* clamp(s, min, max)
Clamp(s, lo, hi) == IF s < lo THEN lo ELSE IF s > hi THEN hi ELSE s
\* v is the product p / 10000 with its fraction dropped
IsFloorOf(v, p) == v * 10000 <= p /\ p < (v + 1) * 10000
\* v is the product p / 10000 rounded to the nearest integer
IsRoundOf(v, p) == 2 * (v * 10000 - p) <= 10000 /\ 2 * (p - v * 10000) <= 10000

\* C1: after a direction write in which exactly one child write failed (connect
\* or write error), Control State direction is the requested direction and the
\* warning is non-empty and names the wheel that failed.
C1_OneFailedUpdatesAndNamesWheel ==
    (last.op = "direction" /\ Failed(last.e1) # Failed(last.e2)) =>
        /\ currentDirection = Requested(last.requested)
        /\ directionWarning # ""
        /\ Failed(last.e1) => directionWarning =
             "WARNING: Inner wheel (.23) direction change failed - wheels may be mismatched!"
        /\ Failed(last.e2) => directionWarning =
             "WARNING: Outer wheel (.24) direction change failed - wheels may be mismatched!"

C1_Witness ==
    /\ last.op = "direction"
    /\ last.requested = "rev" /\ last.oldDirection = "fwd"
    /\ last.e1 = "connect" /\ last.e2 = "nil"
    /\ currentDirection = "rev"
    /\ directionWarning = warnInnerFailed

\* C2: after a direction write in which both child writes failed, Control State
\* direction is what it was before the command and the warning is the text
\* saying the change failed on both wheels.
C2_BothFailedKeepsDirection ==
    (last.op = "direction" /\ Failed(last.e1) /\ Failed(last.e2)) =>
        /\ currentDirection = last.oldDirection
        /\ directionWarning = "Direction change failed on both wheels"

C2_Witness ==
    /\ last.op = "direction"
    /\ last.requested = "rev" /\ last.oldDirection = "fwd"
    /\ last.e1 = "write" /\ last.e2 = "connect"
    /\ currentDirection = "fwd"

\* C3: after a direction write in which both child writes succeeded, Control
\* State direction is the requested direction and the warning is empty,
\* whatever direction and warning were before.
C3_BothOkUpdatesAndClears ==
    (last.op = "direction" /\ ~Failed(last.e1) /\ ~Failed(last.e2)) =>
        /\ currentDirection = Requested(last.requested)
        /\ directionWarning = ""

C3_Witness ==
    /\ last.op = "direction"
    /\ last.e1 = "nil" /\ last.e2 = "nil"
    /\ last.oldWarning # "" /\ last.oldDirection = "rev"
    /\ last.requested = "fwd"
    /\ currentDirection = "fwd" /\ directionWarning = ""

\* C4 (as claimed): while the direction-control enable flag is not set, no
\* register write goes to a child drive for a direction field.
C4_NoDirectionWriteWhenDisabled ==
    ~directionControlEnabled =>
        \A k \in ChildWrites : writes[k].addr # directionRegister

\* C5: the holding registers the program writes are P0122 (address 121) and, on
\* the child drives, P0227 (address 226); no other register of the P0200-P0230
\* block is written.
C5_OnlySpeedAndDirectionRegisters ==
    \A k \in 1..Len(writes) :
        writes[k].fn = "WriteSingleRegister" =>
            /\ writes[k].addr \in {121, 226}
            /\ writes[k].drive = "main" => writes[k].addr = 121
            /\ (writes[k].addr + 1) \notin ((200..230) \ {227})

C5_Witness ==
    /\ \E k \in ChildWrites : writes[k].addr = 226 /\ writes[k].drive = "child1"
    /\ \E k \in ChildWrites : writes[k].addr = 226 /\ writes[k].drive = "child2"
    /\ \E k \in ChildWrites : writes[k].addr = 121
    /\ pc = "idle"
    /\ \E k \in 1..Len(writes) : writes[k].drive = "main" /\ writes[k].addr = 121

\* C6: after a wheel-speed write with input s, Control State wheel speed is
\* clamp(s, minSpeed, maxSpeed), whichever of the two child writes failed.
C6_SpeedRecordedWhateverFails ==
    last.op = "speed" =>
        currentSpeed = Clamp(last.requested, minSpeed, maxSpeed)

C6_Witness ==
    /\ last.op = "speed"
    /\ last.requested = 65535
    /\ last.e1 = "write" /\ last.e2 = "connect"
    /\ last.oldSpeed = 600
    /\ currentSpeed = 1500

\* C7 (as claimed): the value written to the outer wheel's speed register is
\* clamp(s, min, max) * 0.9167 rounded to the nearest integer.
C7_OuterIsRounded ==
    \A k \in OuterSpeedWrites :
        IsRoundOf(writes[k].val, Clamp(Deref(c.speed), minSpeed, maxSpeed) * 9167)

\* C7 (amended): the value written to the outer wheel's speed register is
\* clamp(s, min, max) * 0.9167 with its fraction dropped.
C7_OuterIsTruncated ==
    \A k \in OuterSpeedWrites :
        IsFloorOf(writes[k].val, Clamp(Deref(c.speed), minSpeed, maxSpeed) * 9167)

C7_Witness ==
    /\ c.speed = <<0>>
    /\ \E k \in OuterSpeedWrites : writes[k].val = 91

\* C8: a wheel-speed input is clamped before use: the inner wheel is written
\* exactly clamp(s, min, max), which lies in [min, max] and differs from an
\* out-of-range s, and the outer wheel's value is derived from the clamped
\* value, not from s.
C8_ClampedBeforeUse ==
    LET s == Deref(c.speed)
        cl == Clamp(s, minSpeed, maxSpeed)
    IN  /\ \A k \in InnerSpeedWrites :
              /\ writes[k].val = cl
              /\ minSpeed <= writes[k].val /\ writes[k].val <= maxSpeed
              /\ (s < minSpeed \/ s > maxSpeed) => writes[k].val # s
        /\ \A k \in OuterSpeedWrites :
              /\ writes[k].val * 10000 <= cl * 9167
              /\ cl * 9167 < (writes[k].val + 1) * 10000
              /\ s < minSpeed => writes[k].val > (s * 9167) \div 10000

C8_Witness ==
    /\ c.speed = <<65535>>
    /\ \E k \in InnerSpeedWrites : writes[k].val = 1500
    /\ \E k \in OuterSpeedWrites : writes[k].val = 1375

\* C9 (as claimed): no value outside 100..1200 is written to the inner wheel's
\* speed register or recorded as the Control State wheel speed.
C9_SpeedWithin100To1200 ==
    /\ \A k \in InnerSpeedWrites : 100 <= writes[k].val /\ writes[k].val <= 1200
    /\ 100 <= currentSpeed /\ currentSpeed <= 1200

\* the field of the command a write belongs to
FieldOf(w) ==
    IF w.fn = "WriteSingleCoil"
    THEN (IF w.addr = 50065 THEN "wheels" ELSE IF w.addr = 50066 THEN "chain" ELSE "?")
    ELSE IF w.drive = "main" THEN "chainSpeed"
    ELSE IF w.addr = 226 THEN "direction"
    ELSE IF w.addr = 121 THEN "speed" ELSE "?"

\* C10: a field absent from the command causes no write and no change of its
\* Control State field: every write issued belongs to a field the command
\* carries, and direction and warning, wheel speed and chain speed change only
\* under a command that carries direction, wheel speed and chain speed.
C10_AbsentFieldsCauseNothing ==
    [][ /\ \A k \in 1..Len(writes') :
              \E i \in Present(c') : FieldNames[i] = FieldOf(writes'[k])
        /\ IsNil(c'.direction) =>
              (currentDirection' = currentDirection /\ directionWarning' = directionWarning)
        /\ IsNil(c'.speed) => currentSpeed' = currentSpeed
        /\ IsNil(c'.chainSpeed) => currentChainSpeed' = currentChainSpeed ]_vars

C10_Witness ==
    /\ pc = "idle"
    /\ Present(c) = {4}
    /\ Len(writes) = 2
    /\ \A k \in 1..Len(writes) :
          writes[k].drive \in {"child1", "child2"} /\ writes[k].addr = speedRegister
    /\ currentSpeed = 1300 /\ currentDirection = "fwd" /\ currentChainSpeed = 420

\* the write goroutines that have not returned, and a call of the dispatcher
\* on the main drive's connection that has not returned
InFlight == {i \in Children : g[i] \in {"start", "connected"}}
MainWriteInFlight == pc \in {"wheelsCall", "chainCall", "chainSpeedCall"}

\* C11: writes of two different commands are never in flight together: a write
\* in flight serves the command the dispatcher is processing, and the dispatcher
\* takes the next command only when no write is in flight.
C11_OneCommandInFlight ==
    [][ /\ \A i \in Children : g'[i] \in {"start", "connected"} => loc'.cmd = cid'
        /\ cid' # cid =>
              /\ \A i \in Children : g[i] \in {"none", "done"} /\ g'[i] \in {"none", "done"}
              /\ ~MainWriteInFlight /\ pc = "idle" ]_vars

C11_Witness ==
    /\ InFlight = {1, 2}
    /\ g[1] = "connected" /\ g[2] = "connected"
    /\ cid = 1 /\ qid = <<2>>
    /\ ~IsNil(cmdCh[1].speed)

\* the control fields of the published snapshot, in the order of ControlState
SnapControl ==
    << snap.wheelDirection, snap.directionWarning, snap.wheelSpeed, snap.chainSpeed >>

\* C12 (as claimed): the control fields of every published snapshot are the
\* Control State as it stood at one instant while the tick loaded them: never
\* the direction of before a direction write with the warning of after it, or
\* the reverse.
C12_SnapshotIsOneInstant ==
    snap.seq > 0 => SnapControl \in window

\* a ReadCoils call of the poll loop on the main drive's connection that has
\* not returned
MainReadInFlight == ppc \in {"wheelsCoilCall", "paddleCoilCall"}

\* C13 (as claimed): at no time are two calls in flight on the long-lived
\* connection to the main drive: a coil write or chain-speed write of the
\* dispatcher never overlaps a coil read of the poll loop.
C13_OneCallOnMainConnection ==
    ~(MainWriteInFlight /\ MainReadInFlight)

\* the drives whose telemetry read failed in the tick
FailedReads == {d \in Drives : terr[d] # "nil"}
\* the sample of drive d in the published snapshot
SnapSample(d) ==
    IF d = "chain" THEN snap.chain ELSE IF d = "inner" THEN snap.innerWheel ELSE snap.outerWheel
\* the five values a twelve-byte response carries
AsRead(raw) ==
    [targetRPM |-> raw[1] * 256 + raw[2], actualRPM |-> raw[3] * 256 + raw[4],
     voltage |-> raw[7] * 256 + raw[8],
     amps |-> [n |-> raw[9] * 256 + raw[10], d |-> 200],
     driveState |-> raw[11] * 256 + raw[12]]
AllZero ==
    [targetRPM |-> 0, actualRPM |-> 0, voltage |-> 0, amps |-> [n |-> 0, d |-> 200],
     driveState |-> 0]

\* C14: the sequence numbers of the published snapshots go up by exactly one:
\* the n-th snapshot published carries n, whatever reads failed in its tick, so
\* none is skipped and none repeated.
C14_SeqConsecutive ==
    [][ published' # published =>
           /\ published' = published + 1
           /\ snap'.seq = published'
           /\ snap'.seq = seq + 1
           /\ seq' = snap'.seq ]_vars

C14_Witness ==
    /\ published = 2 /\ snap.seq = 2
    /\ prevFailed = {"chain", "outer"}
    /\ FailedReads = {"inner"}
    /\ coilRes.wheels.err

\* C15: a tick in which exactly one drive's telemetry read fails (connect error,
\* read error or short read) publishes the two other samples as read, zeros for
\* the failed drive and the next sequence number; a drive whose read succeeds
\* has its freshly read values in the snapshot even if its read failed in the
\* tick before.
C15_OneFailedReadZeroesOneSample ==
    snap.seq > 0 =>
        /\ Cardinality(FailedReads) = 1 =>
              /\ \A d \in Drives :
                    SnapSample(d) = IF d \in FailedReads THEN AllZero ELSE AsRead(traw[d])
              /\ snap.seq = published /\ snap.seq = ticks
        /\ \A d \in prevFailed \ FailedReads : SnapSample(d) = AsRead(traw[d])

C15_Witness ==
    /\ snap.seq = 2
    /\ prevFailed = {"inner"}
    /\ terr = [d \in Drives |-> IF d = "outer" THEN "short" ELSE "nil"]
    /\ traw["inner"] = BlockB /\ snap.innerWheel.amps.n = 65535
    /\ traw["chain"] = BlockA /\ snap.chain.targetRPM = 1200
    /\ snap.outerWheel = AllZero

\* the coil value a ReadCoils result stands for: false when the call failed or
\* returned nothing
CoilAsRead(res) == IF res.err \/ res.raw = << >> THEN FALSE ELSE res.raw[1] % 2 = 1

\* C16: every tick publishes exactly one snapshot, whichever telemetry reads
\* and coil reads fail: after n ticks n snapshots are out, and a failed read
\* zeroes its own field of the snapshot and no other.
C16_EveryTickPublishes ==
    /\ published = IF ppc = "top" THEN ticks ELSE ticks - 1
    /\ snap.seq > 0 =>
          /\ \A d \in Drives :
                SnapSample(d) = IF d \in FailedReads THEN AllZero ELSE AsRead(traw[d])
          /\ snap.wheelsRunning = CoilAsRead(coilRes.wheels)
          /\ snap.paddleRunning = CoilAsRead(coilRes.paddle)
          /\ SnapControl = ControlState

C16_Witness ==
    /\ ticks = 2 /\ published = 2 /\ ppc = "top"
    /\ prevFailed = Drives
    /\ FailedReads = {"chain"} /\ terr["chain"] = "connect"
    /\ coilRes.wheels.err /\ coilRes.paddle = ReadOk(<<1>>)
    /\ snap.paddleRunning /\ ~snap.wheelsRunning
    /\ snap.innerWheel.targetRPM = 600

\* a dual write of the given kinds has just returned with both child writes done
BothSucceeded(ops) == last.op \in ops /\ ~Failed(last.e1) /\ ~Failed(last.e2)

\* C17 (as claimed): a warning that is set stays non-empty until the next dual
\* write on which both child drives succeed, and that write clears it.
C17_SymmetricWriteClears ==
    [][ /\ (directionWarning # "" /\ directionWarning' = "") =>
               BothSucceeded({"direction", "speed"})'
        /\ BothSucceeded({"direction", "speed"})' => directionWarning' = "" ]_vars

\* C17 (amended): a warning that is set stays non-empty until the next direction
\* write on which both child drives succeed, and that write clears it; a wheel
\* speed write leaves the warning as it is, whether its child writes succeed or not.
C17_DirectionWriteClears ==
    [][ /\ (directionWarning # "" /\ directionWarning' = "") => BothSucceeded({"direction"})'
        /\ BothSucceeded({"direction"})' => directionWarning' = ""
        /\ (last'.op = "speed" /\ last.op # "speed") => directionWarning' = directionWarning ]_vars

C17_Witness ==
    /\ BothSucceeded({"speed"})
    /\ directionWarning = warnOuterFailed
    /\ currentSpeed = 1300 /\ currentDirection = "rev"

\* C18: Control State direction changes only at the end of a direction write in
\* which at least one child write succeeded, and it changes to the direction
\* that was written: with no write issued, or both writes failed, it stays.
C18_DirectionChangesOnlyAfterSuccess ==
    [][ currentDirection' # currentDirection =>
           /\ pc \in {"directionWait", "directionStore"}
           /\ \E i \in Children :
                 /\ err[i] = "nil"
                 /\ \E k \in 1..Len(writes) :
                       /\ writes[k].drive = ChildDrive(i)
                       /\ writes[k].addr = 226
                       /\ writes[k].val = IF currentDirection' = "rev" THEN 1 ELSE 0 ]_vars

C18_Witness ==
    /\ last.op = "direction"
    /\ last.e1 = "nil" /\ last.e2 = "write"
    /\ last.oldDirection = "rev" /\ last.requested = "left"
    /\ currentDirection = "fwd"

\* C19: every write to a child drive goes over a connection opened for that
\* operation and closed when the operation returns: a write goroutine starts
\* without a connection, the write is sent on the connection it opened and
\* closes it, and with the dispatcher idle or the goroutine returned no
\* connection is open, also after a write that failed.
C19_FreshConnectionPerWrite ==
    [][ \A i \in Children :
           /\ (Len(writes') > Len(writes) /\ writes'[Len(writes')].drive = ChildDrive(i)) =>
                 (g[i] = "connected" /\ conn[i] /\ ~conn'[i])
           /\ g'[i] = "start" => ~conn'[i]
           /\ (pc' = "idle" \/ g'[i] \in {"none", "done"}) => ~conn'[i] ]_vars

C19_Witness ==
    /\ g[1] = "done" /\ err[1] = "write" /\ ~conn[1]
    /\ g[2] = "connected" /\ conn[2]
    /\ loc.op = "direction"
    /\ \E k \in 1..Len(writes) : writes[k].drive = "child1"

\* C20: commands are processed in the order in which they were put on the
\* queue: the queue holds them in arrival order, the dispatcher takes the
\* oldest, and it issues writes only for the command it has taken.
C20_ProcessedInQueueOrder ==
    [][ /\ \A k \in 1..(Len(qid') - 1) : qid'[k] < qid'[k + 1]
        /\ \A k \in 1..Len(qid') : cid' < qid'[k]
        /\ cid' # cid => (cid' = qid[1] /\ c' = cmdCh[1] /\ cmdCh' = Tail(cmdCh))
        /\ Len(writes') > Len(writes) => (cid' = cid /\ c' = c) ]_vars

C20_Witness ==
    /\ cid = 1 /\ qid = <<2>>
    /\ pc = "idle"
    /\ Len(writes) = 2
    /\ ~IsNil(c.direction) /\ ~IsNil(cmdCh[1].chainSpeed)

\* the operation that has just returned met a failure
FailedOp ==
    \/ last.op \in {"wheels", "chain", "chainSpeed"} /\ ~last.ok
    \/ last.op \in {"direction", "speed"} /\ (Failed(last.e1) \/ Failed(last.e2))
\* the position of the dispatcher after each operation
PositionAfter(op) ==
    IF op = "wheels" THEN "chain" ELSE IF op = "chain" THEN "direction"
    ELSE IF op = "direction" THEN "speed" ELSE IF op = "speed" THEN "chainSpeed" ELSE "idle"

\* C21: a failed write of one field does not keep the remaining present fields
\* of the command from being attempted, nor later commands from being
\* processed: after a failed operation the dispatcher stands at the next field,
\* a command that is done has had every present field attempted on every drive
\* it goes to, and an idle dispatcher takes the next queued command.
C21_FailureBlocksNothing ==
    /\ FailedOp => pc = PositionAfter(last.op)
    /\ (pc = "idle" /\ cid > 0) =>
          \A k \in AttemptKeys : ~IsNil(c[k[1]]) => attempts[k] >= 1
    /\ (pc = "idle" /\ cmdCh # << >>) => ENABLED Dequeue

C21_Witness ==
    /\ cid = 2 /\ pc = "idle"
    /\ Present(c) = 1..5
    /\ Len(writes) = 3
    /\ last.op = "chainSpeed" /\ ~last.ok
    /\ \A k \in AttemptKeys : attempts[k] = 1

\* the dispatcher is inside writeDirectionToBothWheels: the goroutines run, or
\* the classification is storing its two Control State fields
DirectionWriteInFlight == pc \in {"directionWait", "directionStore"}

\* C22: with both child drives starting in the Control State direction and no
\* other writer, whenever no direction write is in flight, two child drives
\* that hold different direction values come with a non-empty warning, and an
\* empty warning comes with both drives holding the Control State direction.
C22_DisagreementIsWarned ==
    ~DirectionWriteInFlight =>
        /\ driveDir[1] # driveDir[2] => directionWarning # ""
        /\ directionWarning = "" =>
               \A i \in Children : driveDir[i] = DirectionVal(currentDirection)

\* a direction write failed on the outer drive after the inner drive turned
C22_Witness ==
    /\ ~DirectionWriteInFlight
    /\ last.op = "direction"
    /\ driveDir[1] = DirectionVal("rev") /\ driveDir[2] = DirectionVal("fwd")
    /\ directionWarning = warnOuterFailed

\* C23: while a child write of a dual write is in flight no Control State field
\* changes, and a load of the poll loop made meanwhile returns the value the
\* field had before the write; the dual write changes the Control State only
\* once both goroutines have finished.
C23_NoUpdateDuringDualWrite ==
    [][ /\ InFlight # {} =>
              /\ ControlState' = ControlState
              /\ (ppc = "loadDir" /\ ppc' = "loadSpd") => wheelDir' = currentDirection
              /\ (ppc = "loadSpd" /\ ppc' = "loadChain") => wheelSpd' = currentSpeed
              /\ (ppc = "loadChain" /\ ppc' = "loadWarn") => chainSpd' = currentChainSpeed
              /\ (ppc = "loadWarn" /\ ppc' = "publish") => dirWarn' = directionWarning
        /\ (pc \in {"directionWait", "speedWait"} /\ ControlState' # ControlState) =>
              \A i \in Children : g[i] = "done" ]_vars

\* the inner drive has taken the reverse direction, the write to the outer
\* drive is still in flight, and the poll loop has loaded the old direction
C23_Witness ==
    /\ loc.op = "direction" /\ loc.direction = "rev"
    /\ g[1] = "done" /\ err[1] = "nil" /\ g[2] = "connected"
    /\ ppc = "loadWarn" /\ wheelDir = "fwd" /\ currentDirection = "fwd"

\* the writes of the current command sent for field f to drive d
WritesOf(f, d) == {k \in 1..Len(writes) : FieldOf(writes[k]) = f /\ writes[k].drive = d}

\* C24: within one command no field is attempted more than once on a drive (a
\* failed write is not retried), and once the command is processed every
\* present field has been attempted exactly once on each drive it targets, on
\* both child drives whatever the other one did, and no absent field at all.
C24_OneAttemptPerDrive ==
    /\ \A k \in AttemptKeys :
          attempts[k] <= 1 /\ Cardinality(WritesOf(k[1], k[2])) <= attempts[k]
    /\ (pc = "idle" /\ cid > 0) =>
          \A k \in AttemptKeys : attempts[k] = IF IsNil(c[k[1]]) THEN 0 ELSE 1

\* a processed direction command whose inner connect failed: the outer drive
\* was written all the same, and each of the two was tried once
C24_Witness ==
    /\ pc = "idle" /\ cid > 0 /\ ~IsNil(c.direction)
    /\ attempts[<<"direction", "child1">>] = 1 /\ WritesOf("direction", "child1") = {}
    /\ attempts[<<"direction", "child2">>] = 1
    /\ Cardinality(WritesOf("direction", "child2")) = 1

\* C25: the Control State direction is "fwd" or "rev" in every reachable state;
\* a requested value that is neither is written to the drives as 0 (forward)
\* and, unless both writes failed, recorded as "fwd".
C25_DirectionIsFwdOrRev ==
    /\ currentDirection \in {"fwd", "rev"}
    /\ (last.op = "direction" /\ last.requested \notin {"fwd", "rev"}) =>
          /\ \A k \in 1..Len(writes) :
                FieldOf(writes[k]) = "direction" => writes[k].val = 0
          /\ ~(Failed(last.e1) /\ Failed(last.e2)) => currentDirection = "fwd"

\* the drives ran in reverse and "left" was requested: both took the value 0
C25_Witness ==
    /\ last.op = "direction" /\ last.requested = "left" /\ last.oldDirection = "rev"
    /\ ~Failed(last.e1) /\ ~Failed(last.e2)
    /\ WritesOf("direction", "child1") # {} /\ WritesOf("direction", "child2") # {}
    /\ currentDirection = "fwd"

\* the place of a field in the dispatcher's loop body
Rank(f) == CHOOSE i \in 1..5 : FieldNames[i] = f

\* C26: within one command the fields are applied in the order wheels coil,
\* chain coil, direction, wheel speed, chain speed: when a write for a field is
\* attempted, every present field before it has been attempted, no field after
\* it has, and no write of another field is still in flight.
C26_FieldsInOrder ==
    [][ \A k \in AttemptKeys :
          attempts'[k] > attempts[k] =>
              /\ \A j \in AttemptKeys :
                    /\ Rank(j[1]) > Rank(k[1]) => attempts[j] = 0
                    /\ (Rank(j[1]) < Rank(k[1]) /\ ~IsNil(c[j[1]])) => attempts[j] = 1
              /\ ~MainWriteInFlight
              /\ \A i \in InFlight : loc.op = k[1] ]_vars

\* a processed command with all five fields: seven writes, coils first, the
\* direction before the speed, the chain speed last
C26_Witness ==
    /\ pc = "idle" /\ Present(c) = 1..5 /\ Len(writes) = 7
    /\ << FieldOf(writes[1]), FieldOf(writes[2]), FieldOf(writes[7]) >>
           = << "wheels", "chain", "chainSpeed" >>
    /\ \A k \in 3..4 : FieldOf(writes[k]) = "direction"
    /\ \A k \in 5..6 : FieldOf(writes[k]) = "speed"

\* the holding registers of a child drive that the poll loop reads
TelemetryRegisters == telemetryAddress .. (telemetryAddress + telemetryQuantity - 1)

\* C27: the Control State wheel speed changes only when a wheel-speed command
\* has been processed, and then to that command's clamped speed; a tick that
\* loads the wheel speed loads that value, and the snapshot it publishes
\* reports its control fields as loaded.  Hence every snapshot whose loads come
\* after a wheel-speed command and before the next one reports that command's
\* clamped speed.  The registers the poll loop reads on the child drives are
\* neither the speed nor the direction register.
C27_SnapshotReportsRecordedSpeed ==
    [][ /\ currentSpeed' # currentSpeed => last'.op = "speed" /\ last.op # "speed"
        /\ (last'.op = "speed" /\ last.op # "speed") =>
              currentSpeed' = Clamp(last'.requested, minSpeed, maxSpeed)
        /\ (ppc = "loadSpd" /\ ppc' = "loadChain") => wheelSpd' = currentSpeed
        /\ (ppc = "publish" /\ ppc' = "top") =>
              SnapControl' = << wheelDir, dirWarn, wheelSpd, chainSpd >>
        /\ TelemetryRegisters \cap {speedRegister, directionRegister} = {} ]_vars

\* a speed of 1501 was processed with both child writes failing, and the
\* snapshot published afterwards reports the clamped 1500
C27_Witness ==
    /\ cid = 1 /\ c.speed = <<1501>> /\ pc = "idle"
    /\ snap.seq > 0 /\ snap.wheelSpeed = 1500
    /\ writes = << >>

\* the coil writes of the current command, in the order they were sent
CoilWrites == SelectSeq(writes, LAMBDA w : w.fn = "WriteSingleCoil")
\* the coil write a run field stands for: main drive, 0-based address, 0xFF00
\* for true and 0x0000 for false
CoilWriteFor(p, addr) ==
    IF IsNil(p) THEN << >>
    ELSE << [drive |-> "main", fn |-> "WriteSingleCoil", addr |-> addr,
             val |-> IF Deref(p) THEN 65280 ELSE 0] >>
ExpectedCoils == CoilWriteFor(c.wheels, 50065) \o CoilWriteFor(c.chain, 50066)

\* C28: the coil writes of a command are those of its wheels-run and chain-run
\* fields, sent to the main drive at the 0-based addresses 50065 and 50066 with
\* the value 0xFF00 for true and 0x0000 for false; no coil write goes to a
\* child drive.
C28_CoilsOnMainDriveOnly ==
    /\ Len(CoilWrites) <= Len(ExpectedCoils)
    /\ \A k \in 1..Len(CoilWrites) : CoilWrites[k] = ExpectedCoils[k]
    /\ (cid > 0 /\ pc \notin {"wheels", "wheelsCall", "chain"}) => CoilWrites = ExpectedCoils
    /\ \A k \in ChildWrites : writes[k].fn = "WriteSingleRegister"

\* wheels on and chain off in one command that also wrote the child drives
C28_Witness ==
    /\ pc = "idle" /\ c.wheels = <<TRUE>> /\ c.chain = <<FALSE>>
    /\ Len(CoilWrites) = 2 /\ CoilWrites[1].val = 65280 /\ CoilWrites[2].val = 0
    /\ ChildWrites # {}

\* C29: as long as no command has been taken from the queue, the Control State
\* is forward, wheel speed 600, chain speed 420 and an empty warning, and every
\* snapshot published reports exactly these.
C29_DefaultsBeforeFirstCommand ==
    cid = 0 =>
        /\ ControlState = << "fwd", "", 600, 420 >>
        /\ snap.seq > 0 => SnapControl = << "fwd", "", 600, 420 >>

\* a snapshot was published while the first command still waits in the queue
C29_Witness ==
    /\ cid = 0 /\ Len(cmdCh) = 1
    /\ snap.seq = 1 /\ snap.chainSpeed = 420 /\ snap.wheelSpeed = 600

\* C30: each operation changes only its own Control State fields.  While the
\* dispatcher is in the wheel-speed write the direction, the warning and the
\* chain speed keep their values; in the direction write both speeds do; in the
\* chain-speed write the direction, the warning and the wheel speed do; in a
\* coil write, between commands, and in every step of the poll loop no Control
\* State field changes.
C30_OperationsChangeOwnFieldsOnly ==
    [][ /\ pc \in {"speed", "speedWait"} =>
              << currentDirection, directionWarning, currentChainSpeed >>'
                  = << currentDirection, directionWarning, currentChainSpeed >>
        /\ pc \in {"direction", "directionWait", "directionStore"} =>
              << currentSpeed, currentChainSpeed >>' = << currentSpeed, currentChainSpeed >>
        /\ pc \in {"chainSpeed", "chainSpeedCall"} =>
              << currentDirection, directionWarning, currentSpeed >>'
                  = << currentDirection, directionWarning, currentSpeed >>
        /\ pc \in {"idle", "wheels", "wheelsCall", "chain", "chainCall"} =>
              ControlState' = ControlState
        /\ Poll' # Poll => ControlState' = ControlState ]_vars

\* a chain-speed command was processed after a tick: the chain speed changed,
\* the other three fields are the initial ones, and a snapshot was published
C30_Witness ==
    /\ last.op = "chainSpeed" /\ last.ok /\ currentChainSpeed = 1200
    /\ << currentDirection, directionWarning, currentSpeed >> = << "fwd", "", defaultSpeed >>
    /\ snap.seq > 0

\* C31: a chain-speed command writes clamp(s, 100, 1200) to register 121 of
\* the main drive; the Control State chain speed becomes that value when the
\* write succeeded and keeps its prior value when the write failed; and it
\* changes in no other step.
C31_ChainSpeedRecordedOnSuccess ==
    [][ /\ (last'.op = "chainSpeed" /\ last.op # "chainSpeed") =>
              /\ writes'[Len(writes')] =
                     [drive |-> "main", fn |-> "WriteSingleRegister", addr |-> 121,
                      val |-> Clamp(last'.requested, 100, 1200)]
              /\ currentChainSpeed' = IF last'.ok THEN Clamp(last'.requested, 100, 1200)
                                      ELSE currentChainSpeed
        /\ currentChainSpeed' # currentChainSpeed =>
              (last'.op = "chainSpeed" /\ last.op # "chainSpeed" /\ last'.ok) ]_vars

\* a chain speed of 65535 was written as 1200 and the write failed: the chain
\* speed recorded is still the initial 420
C31_Witness ==
    /\ last.op = "chainSpeed" /\ ~last.ok /\ last.requested = 65535
    /\ writes[Len(writes)].val = 1200 /\ writes[Len(writes)].drive = "main"
    /\ currentChainSpeed = 420

\* C32: the queue never holds more than 16 commands; while it holds 16 no
\* parsed command can be put on it, a waiting dispatcher can take one, and the
\* place that frees can be filled; the commands parsed so far (numbered in
\* arrival order) are those the dispatcher has taken, each once and in turn,
\* followed by those still on the queue: none is lost and none is taken twice.
C32_QueueBoundedExactlyOnce ==
    /\ Len(cmdCh) <= 16
    /\ Len(cmdCh) = 16 => \A p \in QueueCmds : ~ENABLED Subscribe(p)
    /\ (Len(cmdCh) = 16 /\ pc = "idle") => ENABLED Dequeue
    /\ Len(cmdCh) = 15 => \A p \in QueueCmds : ENABLED Subscribe(p)
    /\ Len(qid) = Len(cmdCh)
    /\ received = cid + Len(qid)
    /\ \A k \in 1..Len(qid) : qid[k] = cid + k

\* sixteen commands wait while the dispatcher works on the first: the
\* seventeenth got in only when the first had been taken
C32_Witness ==
    /\ Len(cmdCh) = 16 /\ received = 17 /\ cid = 1 /\ pc = "speedWait"

\* the outcomes of one goroutine of a dual write
ChildErrors == {"nil", "connect", "write"}
\* both goroutines of the dual write op have finished, with errors e1 and e2
Joinable(op, e1, e2) ==
    /\ loc.op = op /\ \A i \in Children : g[i] = "done"
    /\ err[1] = e1 /\ err[2] = e2

\* C33: with calls that return and goroutines that are scheduled, every command
\* put on the queue is eventually fully processed and the dispatcher waits on
\* the queue again; and a dual write whose goroutines have finished, with
\* whatever combination of success, connect failure and write failure, passes
\* its join and returns with that outcome.
C33_EveryCommandProcessed ==
    /\ \A id \in 1..MaxLiveMsgs :
          (\E k \in 1..Len(qid) : qid[k] = id) ~> (cid = id /\ pc = "idle")
    /\ \A op \in {"direction", "speed"} : \A e1 \in ChildErrors, e2 \in ChildErrors :
          Joinable(op, e1, e2) ~> (last.op = op /\ last.e1 = e1 /\ last.e2 = e2)
    /\ (\E i \in Children : g[i] # "none") ~> (pc = "idle")

\* the second command is done and the dispatcher waits on an empty queue; its
\* direction write failed on both drives
C33_Witness ==
    /\ cid = 2 /\ pc = "idle" /\ cmdCh = << >>
    /\ directionWarning = warnBothFailed
    /\ \A k \in AttemptKeys : attempts[k] = 1

\* C34: the step that rejects a message that does not parse puts nothing on the
\* queue, issues no write, starts nothing in the dispatcher and leaves the
\* Control State and the drives as they are.
C34_BadJsonDiscarded ==
    [][ rejected' # rejected =>
          /\ rejected' = rejected + 1 /\ received' = received + 1
          /\ cmdCh' = cmdCh /\ qid' = qid
          /\ writes' = writes /\ attempts' = attempts
          /\ << cid, pc, c, loc, g >>' = << cid, pc, c, loc, g >>
          /\ ControlState' = ControlState
          /\ driveDir' = driveDir ]_vars

\* a message was rejected next to a command whose speed write is in flight
C34_Witness ==
    /\ rejected = 1 /\ received = 2 /\ cmdCh = << >>
    /\ cid \in {1, 2} /\ pc = "speedWait" /\ InFlight # {}

====
